---- MODULE Spec2Model ----
(***************************************************************************)
(* The useHistory hook (hooks/useHistory.ts): a live value with a          *)
(* debounced, branch-aware undo/redo history.                              *)
(*                                                                         *)
(* Every callback of the hook (setState, the debounce timer's callback,    *)
(* undo, redo, the unmount cleanup) runs to completion on the UI thread    *)
(* and is followed by the re-render it schedules, so each is one action.   *)
(* The callbacks are closures: pushToHistory, undo and redo read the       *)
(* history and currentIndex of the render that created them, and a timer   *)
(* keeps the pushToHistory of the setState that armed it.  The model keeps *)
(* that captured render in the timer.                                      *)
(*                                                                         *)
(* Spec and SpecLive drive the hook through the callbacks of the current   *)
(* render.  SpecAsync adds the async handlers of context/AppContext.tsx,   *)
(* which call the setResumeData of an earlier render after an await.       *)
(* SpecVersions is saveVersion of AppContext.tsx with the remote table     *)
(* resume_versions.                                                        *)
(***************************************************************************)
EXTENDS Integers, Sequences, FiniteSets, TLC

\* Bounds of the model.
MaxCount == 2      \* plain values are {count: 0} .. {count: MaxCount}
MaxTimerId == 3    \* setState may be called this many times
MaxHandlers == 1   \* async handlers may wait for the AI service at a time
MaxSaves == 2      \* saveVersion may send this many inserts

VARIABLES
    history,          \* useState<T[]>([initialState])
    currentIndex,     \* useState(0): 0-based index into history
    liveState,        \* useState<T>(initialState)
    debounceTimeout,  \* useRef<number | null>(null).current; NoTimeout is null
    timers,           \* the browser's armed one-shot timers set by this hook
    nextTimerId,      \* the id window.setTimeout returns next
    mounted,          \* FALSE once the unmount cleanup has run
    lastOp,           \* history variable: the last callback and the state it ran in
    burst,            \* history variable: the values set since no commit was pending
    discarded,        \* history variable: ids of the timers undo and redo cleared
    trip,             \* history variable: the undo() calls, then redo() calls, made
                      \* in a row, and the state the first of them ran in
    failed,           \* history variable: a commit caught a TypeError since the
                      \* last setState
    handlers,         \* AppContext: the async handlers waiting for the AI service,
                      \* each with the setResumeData it closed over
    user,             \* AppContext: useState<User | null>(null), by its tier
    savedVersions,    \* AppContext: useState<ResumeVersion[]>([])
    resume_versions,  \* the rows of the remote table resume_versions
    saving,           \* AppContext: the saveVersion calls waiting for their insert
    nextSaveId,       \* the number of the next saveVersion call
    isSubscriptionModalOpen,  \* AppContext: useState(false)
    error             \* AppContext: useState<string | null>(null)

\* The state of the useHistory hook.
hookVars == <<history, currentIndex, liveState, debounceTimeout, timers,
              nextTimerId, mounted, lastOp, burst, discarded, trip, failed>>

\* The state of the version list of AppContext.
versionVars == <<user, savedVersions, resume_versions, saving, nextSaveId,
                 isSubscriptionModalOpen, error>>

\* The state of AppContext outside the hook.
appVars == <<handlers, user, savedVersions, resume_versions, saving, nextSaveId,
             isSubscriptionModalOpen, error>>

vars == <<history, currentIndex, liveState, debounceTimeout, timers,
          nextTimerId, mounted, lastOp, burst, discarded, trip, failed,
          handlers, user, savedVersions, resume_versions, saving, nextSaveId,
          isSubscriptionModalOpen, error>>

----------------------------------------------------------------------------
\* Values of type T.  A value is plain data ({count: n}) or holds a
\* reference cycle, on which JSON.stringify throws a TypeError.

PlainVal == [count : 0..MaxCount, cyclic : {FALSE}]

CyclicVal == [count : 0..MaxCount, cyclic : {TRUE}]

Val == PlainVal \cup CyclicVal

\* JSON.stringify throws on a value with a reference cycle.
StringifyThrows(v) == v.cyclic

\* JSON.stringify of a plain value: the text {"count":n}.
Stringify(v) == "{\"count\":" \o ToString(v.count) \o "}"

\* The argument of setState: a value, or an updater (prevState) => T.
Increment(prev) == [prev EXCEPT !.count = (prev.count + 1) % (MaxCount + 1)]

\* The value field of an action that carries no value.
NoValue == [count |-> 0, cyclic |-> FALSE]

Action == [fn : {FALSE}, value : Val] \cup [fn : {TRUE}, value : {NoValue}]

\* lastOp.action of a callback that takes no action.
NoAction == [fn |-> FALSE, value |-> NoValue]

\* typeof action === 'function' ? action(currentLiveState) : action
ApplyAction(action, currentLiveState) ==
    IF action.fn THEN Increment(currentLiveState) ELSE action.value

----------------------------------------------------------------------------
NoTimeout == 0

\* history[i] with the code's 0-based index.
At(h, i) == h[i + 1]

\* h.slice(0, n)
Slice(h, n) == SubSeq(h, 1, n)

\* The history and currentIndex the callbacks of the current render close over.
CurrentRender == [history |-> history, currentIndex |-> currentIndex]

\* if (debounceTimeout.current) clearTimeout(debounceTimeout.current)
ClearTimeout(ts, id) == IF id # NoTimeout THEN {t \in ts : t.id # id} ELSE ts

\* pushToHistory with the new index one too far (newHistory.length).
pushToHistoryOffByOne(r, newState) ==
    LET currentHistoryState == At(r.history, r.currentIndex) IN
    IF StringifyThrows(newState) \/ StringifyThrows(currentHistoryState)
    THEN [changed |-> FALSE, threw |-> TRUE, uncaught |-> FALSE,
          history |-> history, currentIndex |-> currentIndex]
    ELSE IF Stringify(newState) = Stringify(currentHistoryState)
    THEN [changed |-> FALSE, threw |-> FALSE, uncaught |-> FALSE,
          history |-> history, currentIndex |-> currentIndex]
    ELSE LET newHistory == Append(Slice(r.history, r.currentIndex + 1), newState) IN
         [changed |-> TRUE, threw |-> FALSE, uncaught |-> FALSE,
          history |-> newHistory, currentIndex |-> Len(newHistory)]

\* pushToHistory that appends to the whole history ([...history, newState]).
pushToHistoryNoTruncate(r, newState) ==
    LET currentHistoryState == At(r.history, r.currentIndex) IN
    IF StringifyThrows(newState) \/ StringifyThrows(currentHistoryState)
    THEN [changed |-> FALSE, threw |-> TRUE, uncaught |-> FALSE,
          history |-> history, currentIndex |-> currentIndex]
    ELSE IF Stringify(newState) = Stringify(currentHistoryState)
    THEN [changed |-> FALSE, threw |-> FALSE, uncaught |-> FALSE,
          history |-> history, currentIndex |-> currentIndex]
    ELSE LET newHistory == Append(r.history, newState) IN
         [changed |-> TRUE, threw |-> FALSE, uncaught |-> FALSE,
          history |-> newHistory, currentIndex |-> Len(newHistory) - 1]

\* pushToHistory without the duplicate check.
pushToHistoryNoDedupe(r, newState) ==
    LET currentHistoryState == At(r.history, r.currentIndex) IN
    IF StringifyThrows(newState) \/ StringifyThrows(currentHistoryState)
    THEN [changed |-> FALSE, threw |-> TRUE, uncaught |-> FALSE,
          history |-> history, currentIndex |-> currentIndex]
    ELSE LET newHistory == Append(Slice(r.history, r.currentIndex + 1), newState) IN
         [changed |-> TRUE, threw |-> FALSE, uncaught |-> FALSE,
          history |-> newHistory, currentIndex |-> Len(newHistory) - 1]

\* pushToHistory with the comparison outside the try: the TypeError escapes.
pushToHistoryNoCatch(r, newState) ==
    LET currentHistoryState == At(r.history, r.currentIndex) IN
    IF StringifyThrows(newState) \/ StringifyThrows(currentHistoryState)
    THEN [changed |-> FALSE, threw |-> TRUE, uncaught |-> TRUE,
          history |-> history, currentIndex |-> currentIndex]
    ELSE IF Stringify(newState) = Stringify(currentHistoryState)
    THEN [changed |-> FALSE, threw |-> FALSE, uncaught |-> FALSE,
          history |-> history, currentIndex |-> currentIndex]
    ELSE LET newHistory == Append(Slice(r.history, r.currentIndex + 1), newState) IN
         [changed |-> TRUE, threw |-> FALSE, uncaught |-> FALSE,
          history |-> newHistory, currentIndex |-> Len(newHistory) - 1]

\* pushToHistory of render r, called with newState: the render's history and
\* currentIndex after it (unchanged when it returns early or catches).
pushToHistory(r, newState) ==
    LET currentHistoryState == At(r.history, r.currentIndex) IN
    IF StringifyThrows(newState) \/ StringifyThrows(currentHistoryState)
    THEN [changed |-> FALSE, threw |-> TRUE, uncaught |-> FALSE,
          history |-> history, currentIndex |-> currentIndex]
    ELSE IF Stringify(newState) = Stringify(currentHistoryState)
    THEN [changed |-> FALSE, threw |-> FALSE, uncaught |-> FALSE,
          history |-> history, currentIndex |-> currentIndex]
    ELSE LET newHistory == Append(Slice(r.history, r.currentIndex + 1), newState) IN
         [changed |-> TRUE, threw |-> FALSE, uncaught |-> FALSE,
          history |-> newHistory, currentIndex |-> Len(newHistory) - 1]

\* canUndo that is true at the first entry too.
canUndoOffByOne == currentIndex >= 0

canUndo == currentIndex > 0

canRedo == currentIndex < Len(history) - 1

\* The state a callback ran in, kept in lastOp.
Snapshot ==
    [history |-> history, currentIndex |-> currentIndex, liveState |-> liveState,
     timers |-> timers, debounceTimeout |-> debounceTimeout, burst |-> burst,
     canUndo |-> canUndo, canRedo |-> canRedo]

\* The ids of the armed timers clearTimeout(debounceTimeout.current) cancels.
Cleared(ts, id) == {t.id : t \in ts \ ClearTimeout(ts, id)}

\* A run of undo() and redo() calls that starts in the state (h, i).
TripStart(h, i, idle, b) ==
    [history |-> h, currentIndex |-> i, idle |-> idle, burst |-> b,
     undos |-> 0, redos |-> 0]

\* The calls of a run are counted up to the length of the history, which is
\* more than can take effect.
CountUp(n) == IF n < Len(history) THEN n + 1 ELSE n

\* A callback other than undo and redo ends the run.
TripRestart == trip' = TripStart(history', currentIndex', timers' = {}, burst')

\* undo() continues a run of undos; after a redo it starts the next run.
TripUndo ==
    trip' = IF trip.redos > 0
            THEN [TripStart(history, currentIndex, timers = {}, burst) EXCEPT !.undos = 1]
            ELSE [trip EXCEPT !.undos = CountUp(@)]

\* redo() continues the run.
TripRedo == trip' = [trip EXCEPT !.redos = CountUp(@)]

----------------------------------------------------------------------------
\* AppContext after construction: nobody signed in, no version saved, no
\* handler running.
AppInit ==
    /\ handlers = {}
    /\ user = "null"
    /\ savedVersions = <<>>
    /\ resume_versions = <<>>
    /\ saving = {}
    /\ nextSaveId = 1
    /\ isSubscriptionModalOpen = FALSE
    /\ error = "null"

\* The hook with the history starting empty (useState<T[]>([])).
InitEmptyHistory ==
    \E initialState \in Val :
        /\ history = <<>>
        /\ currentIndex = 0
        /\ liveState = initialState
        /\ debounceTimeout = NoTimeout
        /\ timers = {}
        /\ nextTimerId = 1
        /\ mounted = TRUE
        /\ burst = <<>>
        /\ discarded = {}
        /\ trip = TripStart(<<>>, 0, TRUE, <<>>)
        /\ lastOp = [op |-> "construct", arg |-> initialState, timer |-> NoTimeout,
                     action |-> NoAction, uncaught |-> FALSE,
                     pre |-> [history |-> <<>>, currentIndex |-> 0,
                              liveState |-> initialState, timers |-> {},
                              debounceTimeout |-> NoTimeout, burst |-> <<>>,
                              canUndo |-> FALSE, canRedo |-> FALSE]]
        /\ failed = FALSE
        /\ AppInit

Init ==
    \E initialState \in Val :
        /\ history = <<initialState>>
        /\ currentIndex = 0
        /\ liveState = initialState
        /\ debounceTimeout = NoTimeout
        /\ timers = {}
        /\ nextTimerId = 1
        /\ mounted = TRUE
        /\ burst = <<>>
        /\ discarded = {}
        /\ trip = TripStart(<<initialState>>, 0, TRUE, <<>>)
        /\ lastOp = [op |-> "construct", arg |-> initialState, timer |-> NoTimeout,
                     action |-> NoAction, uncaught |-> FALSE,
                     pre |-> [history |-> <<initialState>>, currentIndex |-> 0,
                              liveState |-> initialState, timers |-> {},
                              debounceTimeout |-> NoTimeout, burst |-> <<>>,
                              canUndo |-> FALSE, canRedo |-> FALSE]]
        /\ failed = FALSE
        /\ AppInit

\* setState that arms the new timer without clearing the pending one.
setStateNoClear(action) ==
    /\ mounted
    /\ nextTimerId <= MaxTimerId
    /\ LET newState == ApplyAction(action, liveState) IN
        /\ timers' = timers \cup {[id |-> nextTimerId, newState |-> newState,
                                   render |-> CurrentRender]}
        /\ debounceTimeout' = nextTimerId
        /\ nextTimerId' = nextTimerId + 1
        /\ liveState' = newState
        /\ burst' = Append(burst, newState)
        /\ lastOp' = [op |-> "set", pre |-> Snapshot, arg |-> newState,
                      timer |-> nextTimerId, action |-> action,
                      uncaught |-> FALSE]
    /\ failed' = FALSE
    /\ UNCHANGED <<history, currentIndex, mounted, discarded>>
    /\ TripRestart
    /\ UNCHANGED appVars

\* setState that hands the updater the committed state, not the live one.
setStateFromCommitted(action) ==
    /\ mounted
    /\ nextTimerId <= MaxTimerId
    /\ LET newState == ApplyAction(action, At(history, currentIndex)) IN
        /\ timers' = ClearTimeout(timers, debounceTimeout)
                        \cup {[id |-> nextTimerId, newState |-> newState,
                               render |-> CurrentRender]}
        /\ debounceTimeout' = nextTimerId
        /\ nextTimerId' = nextTimerId + 1
        /\ liveState' = newState
        /\ burst' = Append(burst, newState)
        /\ lastOp' = [op |-> "set", pre |-> Snapshot, arg |-> newState,
                      timer |-> nextTimerId, action |-> action,
                      uncaught |-> FALSE]
    /\ failed' = FALSE
    /\ UNCHANGED <<history, currentIndex, mounted, discarded>>
    /\ TripRestart
    /\ UNCHANGED appVars

\* setState that pushes to the history at once instead of arming the timer.
setStateEager(action) ==
    /\ mounted
    /\ nextTimerId <= MaxTimerId
    /\ LET newState == ApplyAction(action, liveState)
           res == pushToHistory(CurrentRender, newState) IN
        /\ timers' = ClearTimeout(timers, debounceTimeout)
        /\ history' = res.history
        /\ currentIndex' = res.currentIndex
        /\ debounceTimeout' = nextTimerId
        /\ nextTimerId' = nextTimerId + 1
        /\ liveState' = newState
        /\ burst' = Append(burst, newState)
        /\ lastOp' = [op |-> "set", pre |-> Snapshot, arg |-> newState,
                      timer |-> nextTimerId, action |-> action,
                      uncaught |-> FALSE]
    /\ failed' = FALSE
    /\ UNCHANGED <<mounted, discarded>>
    /\ TripRestart
    /\ UNCHANGED appVars

\* setState(action), called through the setState of the current render.
setState(action) ==
    /\ mounted
    /\ nextTimerId <= MaxTimerId
    /\ LET newState == ApplyAction(action, liveState) IN
        /\ timers' = ClearTimeout(timers, debounceTimeout)
                        \cup {[id |-> nextTimerId, newState |-> newState,
                               render |-> CurrentRender]}
        /\ debounceTimeout' = nextTimerId
        /\ nextTimerId' = nextTimerId + 1
        /\ liveState' = newState
        /\ burst' = Append(burst, newState)
        /\ lastOp' = [op |-> "set", pre |-> Snapshot, arg |-> newState,
                      timer |-> nextTimerId, action |-> action,
                      uncaught |-> FALSE]
    /\ failed' = FALSE
    /\ UNCHANGED <<history, currentIndex, mounted, discarded>>
    /\ TripRestart
    /\ UNCHANGED appVars

\* A timer callback that puts the live value back to the committed entry when
\* the commit fails.
TimerFiresRollback(t) ==
    /\ t \in timers
    /\ LET res == pushToHistory(t.render, t.newState) IN
        /\ history' = res.history
        /\ currentIndex' = res.currentIndex
        /\ liveState' = IF res.threw THEN At(history, currentIndex) ELSE liveState
        /\ failed' = res.threw
        /\ lastOp' = [op |-> "commit", pre |-> Snapshot, arg |-> t.newState,
                      timer |-> t.id, action |-> NoAction,
                      uncaught |-> res.uncaught]
    /\ timers' = timers \ {t}
    /\ burst' = <<>>
    /\ UNCHANGED <<debounceTimeout, nextTimerId, mounted, discarded>>
    /\ TripRestart
    /\ UNCHANGED appVars

\* A timer armed with setInterval: it stays armed after its callback ran.
TimerFiresInterval(t) ==
    /\ t \in timers
    /\ LET res == pushToHistory(t.render, t.newState) IN
        /\ history' = res.history
        /\ currentIndex' = res.currentIndex
        /\ failed' = res.threw
        /\ lastOp' = [op |-> "commit", pre |-> Snapshot, arg |-> t.newState,
                      timer |-> t.id, action |-> NoAction,
                      uncaught |-> res.uncaught]
    /\ burst' = <<>>
    /\ UNCHANGED <<liveState, debounceTimeout, nextTimerId, mounted, discarded,
                   timers>>
    /\ TripRestart
    /\ UNCHANGED appVars

\* The callback of an armed timer runs: pushToHistory(newState).
TimerFires(t) ==
    /\ t \in timers
    /\ LET res == pushToHistory(t.render, t.newState) IN
        /\ history' = res.history
        /\ currentIndex' = res.currentIndex
        /\ failed' = res.threw
        /\ lastOp' = [op |-> "commit", pre |-> Snapshot, arg |-> t.newState,
                      timer |-> t.id, action |-> NoAction,
                      uncaught |-> res.uncaught]
    /\ timers' = timers \ {t}
    /\ burst' = <<>>
    /\ UNCHANGED <<liveState, debounceTimeout, nextTimerId, mounted, discarded>>
    /\ TripRestart
    /\ UNCHANGED appVars

\* undo that leaves the pending timer armed.
undoNoClear ==
    /\ mounted
    /\ IF currentIndex > 0
       THEN LET newIndex == currentIndex - 1 IN
            /\ currentIndex' = newIndex
            /\ liveState' = At(history, newIndex)
            /\ UNCHANGED <<timers, burst, discarded>>
       ELSE UNCHANGED <<timers, currentIndex, liveState, burst, discarded>>
    /\ lastOp' = [op |-> "undo", pre |-> Snapshot, arg |-> liveState,
                  timer |-> NoTimeout, action |-> NoAction,
                  uncaught |-> FALSE]
    /\ UNCHANGED <<history, debounceTimeout, nextTimerId, mounted, failed>>
    /\ TripUndo
    /\ UNCHANGED appVars

\* undo that clamps the index at 0 instead of testing currentIndex > 0.
undoClamped ==
    /\ mounted
    /\ LET newIndex == IF currentIndex > 0 THEN currentIndex - 1 ELSE 0 IN
        /\ timers' = ClearTimeout(timers, debounceTimeout)
        /\ discarded' = discarded \cup Cleared(timers, debounceTimeout)
        /\ burst' = <<>>
        /\ currentIndex' = newIndex
        /\ liveState' = At(history, newIndex)
    /\ lastOp' = [op |-> "undo", pre |-> Snapshot, arg |-> liveState,
                  timer |-> NoTimeout, action |-> NoAction,
                  uncaught |-> FALSE]
    /\ UNCHANGED <<history, debounceTimeout, nextTimerId, mounted, failed>>
    /\ TripUndo
    /\ UNCHANGED appVars

\* undo that shows history[currentIndex] instead of history[newIndex].
undoStaleLive ==
    /\ mounted
    /\ IF currentIndex > 0
       THEN LET newIndex == currentIndex - 1 IN
            /\ timers' = ClearTimeout(timers, debounceTimeout)
            /\ discarded' = discarded \cup Cleared(timers, debounceTimeout)
            /\ burst' = <<>>
            /\ currentIndex' = newIndex
            /\ liveState' = At(history, currentIndex)
       ELSE UNCHANGED <<timers, currentIndex, liveState, burst, discarded>>
    /\ lastOp' = [op |-> "undo", pre |-> Snapshot, arg |-> liveState,
                  timer |-> NoTimeout, action |-> NoAction,
                  uncaught |-> FALSE]
    /\ UNCHANGED <<history, debounceTimeout, nextTimerId, mounted, failed>>
    /\ TripUndo
    /\ UNCHANGED appVars

\* undo that first pushes the pending edit to the history and then steps back.
undoFlush ==
    /\ mounted
    /\ IF currentIndex > 0
       THEN LET res == IF timers # {}
                       THEN pushToHistory(CurrentRender, liveState)
                       ELSE [history |-> history, currentIndex |-> currentIndex]
                newIndex == res.currentIndex - 1 IN
            /\ timers' = ClearTimeout(timers, debounceTimeout)
            /\ discarded' = discarded \cup Cleared(timers, debounceTimeout)
            /\ burst' = <<>>
            /\ history' = res.history
            /\ currentIndex' = newIndex
            /\ liveState' = At(res.history, newIndex)
       ELSE UNCHANGED <<timers, history, currentIndex, liveState, burst, discarded>>
    /\ lastOp' = [op |-> "undo", pre |-> Snapshot, arg |-> liveState,
                  timer |-> NoTimeout, action |-> NoAction,
                  uncaught |-> FALSE]
    /\ UNCHANGED <<debounceTimeout, nextTimerId, mounted, failed>>
    /\ TripUndo
    /\ UNCHANGED appVars

\* undo(), called through the undo of the current render.
undo ==
    /\ mounted
    /\ IF currentIndex > 0
       THEN LET newIndex == currentIndex - 1 IN
            /\ timers' = ClearTimeout(timers, debounceTimeout)
            /\ discarded' = discarded \cup Cleared(timers, debounceTimeout)
            /\ burst' = <<>>
            /\ currentIndex' = newIndex
            /\ liveState' = At(history, newIndex)
       ELSE UNCHANGED <<timers, currentIndex, liveState, burst, discarded>>
    /\ lastOp' = [op |-> "undo", pre |-> Snapshot, arg |-> liveState,
                  timer |-> NoTimeout, action |-> NoAction,
                  uncaught |-> FALSE]
    /\ UNCHANGED <<history, debounceTimeout, nextTimerId, mounted, failed>>
    /\ TripUndo
    /\ UNCHANGED appVars

\* redo that leaves the pending timer armed.
redoNoClear ==
    /\ mounted
    /\ IF currentIndex < Len(history) - 1
       THEN LET newIndex == currentIndex + 1 IN
            /\ currentIndex' = newIndex
            /\ liveState' = At(history, newIndex)
            /\ UNCHANGED <<timers, burst, discarded>>
       ELSE UNCHANGED <<timers, currentIndex, liveState, burst, discarded>>
    /\ lastOp' = [op |-> "redo", pre |-> Snapshot, arg |-> liveState,
                  timer |-> NoTimeout, action |-> NoAction,
                  uncaught |-> FALSE]
    /\ UNCHANGED <<history, debounceTimeout, nextTimerId, mounted, failed>>
    /\ TripRedo
    /\ UNCHANGED appVars

\* redo that shows history[currentIndex] instead of history[newIndex].
redoStaleLive ==
    /\ mounted
    /\ IF currentIndex < Len(history) - 1
       THEN LET newIndex == currentIndex + 1 IN
            /\ timers' = ClearTimeout(timers, debounceTimeout)
            /\ discarded' = discarded \cup Cleared(timers, debounceTimeout)
            /\ burst' = <<>>
            /\ currentIndex' = newIndex
            /\ liveState' = At(history, currentIndex)
       ELSE UNCHANGED <<timers, currentIndex, liveState, burst, discarded>>
    /\ lastOp' = [op |-> "redo", pre |-> Snapshot, arg |-> liveState,
                  timer |-> NoTimeout, action |-> NoAction,
                  uncaught |-> FALSE]
    /\ UNCHANGED <<history, debounceTimeout, nextTimerId, mounted, failed>>
    /\ TripRedo
    /\ UNCHANGED appVars

\* redo(), called through the redo of the current render.
redo ==
    /\ mounted
    /\ IF currentIndex < Len(history) - 1
       THEN LET newIndex == currentIndex + 1 IN
            /\ timers' = ClearTimeout(timers, debounceTimeout)
            /\ discarded' = discarded \cup Cleared(timers, debounceTimeout)
            /\ burst' = <<>>
            /\ currentIndex' = newIndex
            /\ liveState' = At(history, newIndex)
       ELSE UNCHANGED <<timers, currentIndex, liveState, burst, discarded>>
    /\ lastOp' = [op |-> "redo", pre |-> Snapshot, arg |-> liveState,
                  timer |-> NoTimeout, action |-> NoAction,
                  uncaught |-> FALSE]
    /\ UNCHANGED <<history, debounceTimeout, nextTimerId, mounted, failed>>
    /\ TripRedo
    /\ UNCHANGED appVars

\* An unmount with no cleanup: the pending timer stays armed.
disposeNoClear ==
    /\ mounted
    /\ mounted' = FALSE
    /\ burst' = <<>>
    /\ lastOp' = [op |-> "dispose", pre |-> Snapshot, arg |-> liveState,
                  timer |-> NoTimeout, action |-> NoAction,
                  uncaught |-> FALSE]
    /\ UNCHANGED <<history, currentIndex, liveState, debounceTimeout, nextTimerId,
                   discarded, timers, failed>>
    /\ TripRestart
    /\ UNCHANGED appVars

\* The cleanup of the unmount effect.
dispose ==
    /\ mounted
    /\ timers' = ClearTimeout(timers, debounceTimeout)
    /\ mounted' = FALSE
    /\ burst' = <<>>
    /\ lastOp' = [op |-> "dispose", pre |-> Snapshot, arg |-> liveState,
                  timer |-> NoTimeout, action |-> NoAction,
                  uncaught |-> FALSE]
    /\ UNCHANGED <<history, currentIndex, liveState, debounceTimeout, nextTimerId,
                   discarded, failed>>
    /\ TripRestart
    /\ UNCHANGED appVars

Next ==
    \/ \E action \in Action : setState(action)
    \/ \E t \in timers : TimerFires(t)
    \/ undo
    \/ redo
    \/ dispose

Spec == Init /\ [][Next]_vars

\* The browser runs the callback of a timer that stays armed (window.setTimeout
\* with a 500 ms delay): weak fairness of each timer's callback.
TimerFairness ==
    \A id \in 1..MaxTimerId : WF_vars(\E t \in timers : t.id = id /\ TimerFires(t))

\* Every callback treats the values alike and Increment rotates the counts,
\* so the behaviours from a seed {count: n} are those from {count: 0} with the
\* counts rotated by n: the liveness check starts from the seeds with count 0.
InitLive == Init /\ liveState.count = 0

SpecLive == InitLive /\ [][Next]_vars /\ TimerFairness

----------------------------------------------------------------------------
\* The async handlers of AppContext that edit the resume after an await
\* (handleEnhanceResponsibilities, handleApplyMetric).  A handler is a closure
\* of the render it was called in: the setResumeData it calls after the await
\* is the setState of that render, whose pushToHistory reads that render's
\* history and currentIndex.

\* handleApplyMetric up to its await: the request to the AI service is sent.
handleApplyMetric ==
    /\ mounted
    /\ Cardinality(handlers) < MaxHandlers
    /\ handlers' = handlers \cup {[render |-> CurrentRender]}
    /\ UNCHANGED hookVars
    /\ UNCHANGED versionVars

\* The await of handler h resolves: setResumeData(prev => ...), called through
\* the setState of the handler's render, with an updater on the live value.
handleApplyMetricResumes(h) ==
    /\ h \in handlers
    /\ mounted
    /\ nextTimerId <= MaxTimerId
    /\ LET action == [fn |-> TRUE, value |-> NoValue]
           newState == ApplyAction(action, liveState) IN
        /\ timers' = ClearTimeout(timers, debounceTimeout)
                        \cup {[id |-> nextTimerId, newState |-> newState,
                               render |-> h.render]}
        /\ debounceTimeout' = nextTimerId
        /\ nextTimerId' = nextTimerId + 1
        /\ liveState' = newState
        /\ burst' = Append(burst, newState)
        /\ lastOp' = [op |-> "set", pre |-> Snapshot, arg |-> newState,
                      timer |-> nextTimerId, action |-> action,
                      uncaught |-> FALSE]
    /\ handlers' = handlers \ {h}
    /\ failed' = FALSE
    /\ UNCHANGED <<history, currentIndex, mounted, discarded>>
    /\ TripRestart
    /\ UNCHANGED versionVars

\* The await of handler h rejects: the catch rethrows and nothing is set.
handleApplyMetricRejects(h) ==
    /\ h \in handlers
    /\ handlers' = handlers \ {h}
    /\ UNCHANGED hookVars
    /\ UNCHANGED versionVars

NextAsync ==
    \/ \E action \in Action : setState(action)
    \/ \E t \in timers : TimerFires(t)
    \/ undo
    \/ redo
    \/ dispose
    \/ handleApplyMetric
    \/ \E h \in handlers : handleApplyMetricResumes(h)
    \/ \E h \in handlers : handleApplyMetricRejects(h)

\* The hook driven by the callbacks of the current render and by the async
\* handlers of AppContext.
SpecAsync == Init /\ [][NextAsync]_vars

----------------------------------------------------------------------------
\* The saved versions of AppContext (saveVersion) and the remote table
\* resume_versions.  saveVersion is async: it checks the tier limit on the
\* savedVersions of the render it was called in, awaits the insert, and then
\* sets savedVersions from that same render's list.

\* The names the user gives to versions.
VersionNames == {"a", "b"}

\* const tier: SubscriptionTier = user?.tier || 'free'
tier == IF user = "pro" THEN "pro" ELSE "free"

\* A user is signed in, on either tier, or nobody is; no version is saved yet
\* and the resume is the initial one, which is plain data.
InitVersions ==
    \E initialState \in PlainVal, u \in {"null", "free", "pro"} :
        /\ history = <<initialState>>
        /\ currentIndex = 0
        /\ liveState = initialState
        /\ debounceTimeout = NoTimeout
        /\ timers = {}
        /\ nextTimerId = 1
        /\ mounted = TRUE
        /\ burst = <<>>
        /\ discarded = {}
        /\ trip = TripStart(<<initialState>>, 0, TRUE, <<>>)
        /\ lastOp = [op |-> "construct", arg |-> initialState, timer |-> NoTimeout,
                     action |-> NoAction, uncaught |-> FALSE,
                     pre |-> [history |-> <<initialState>>, currentIndex |-> 0,
                              liveState |-> initialState, timers |-> {},
                              debounceTimeout |-> NoTimeout, burst |-> <<>>,
                              canUndo |-> FALSE, canRedo |-> FALSE]]
        /\ failed = FALSE
        /\ handlers = {}
        /\ user = u
        /\ savedVersions = <<>>
        /\ resume_versions = <<>>
        /\ saving = {}
        /\ nextSaveId = 1
        /\ isSubscriptionModalOpen = FALSE
        /\ error = "null"

\* saveVersion(name) up to its await: the two checks, then the insert is sent.
saveVersion(name) ==
    /\ nextSaveId <= MaxSaves
    /\ IF user = "null"
       THEN /\ error' = "Must be logged in to save versions."
            /\ UNCHANGED <<saving, nextSaveId, isSubscriptionModalOpen>>
       ELSE IF tier = "free" /\ Len(savedVersions) >= 1
       THEN /\ isSubscriptionModalOpen' = TRUE
            /\ UNCHANGED <<saving, nextSaveId, error>>
       ELSE /\ saving' = saving \cup
                    {[call |-> nextSaveId, version_name |-> name,
                      resume_data |-> liveState, savedVersions |-> savedVersions,
                      phase |-> "insert", id |-> 0]}
            /\ nextSaveId' = nextSaveId + 1
            /\ UNCHANGED <<isSubscriptionModalOpen, error>>
    /\ UNCHANGED <<user, savedVersions, resume_versions, handlers>>
    /\ UNCHANGED hookVars

\* The remote store handles the insert of call s: it adds the row, with a new
\* id, or it reports an error.
insert(s) ==
    /\ s \in saving
    /\ s.phase = "insert"
    /\ \E ok \in BOOLEAN :
        IF ok
        THEN LET id == Len(resume_versions) + 1 IN
             /\ resume_versions' = Append(resume_versions,
                    [id |-> id, version_name |-> s.version_name,
                     resume_data |-> s.resume_data])
             /\ saving' = (saving \ {s}) \cup {[s EXCEPT !.phase = "data", !.id = id]}
        ELSE /\ saving' = (saving \ {s}) \cup {[s EXCEPT !.phase = "error"]}
             /\ UNCHANGED resume_versions
    /\ UNCHANGED <<user, savedVersions, nextSaveId, isSubscriptionModalOpen, error,
                   handlers>>
    /\ UNCHANGED hookVars

\* The await of call s resolves: setError on an error, otherwise
\* setSavedVersions([newVersion, ...savedVersions]) with the call's list.
saveVersionResumes(s) ==
    /\ s \in saving
    /\ s.phase \in {"data", "error"}
    /\ IF s.phase = "error"
       THEN /\ error' = "insert failed"
            /\ UNCHANGED savedVersions
       ELSE /\ savedVersions' =
                    <<[id |-> s.id, name |-> s.version_name, data |-> s.resume_data]>>
                        \o s.savedVersions
            /\ UNCHANGED error
    /\ saving' = saving \ {s}
    /\ UNCHANGED <<user, resume_versions, nextSaveId, isSubscriptionModalOpen,
                   handlers>>
    /\ UNCHANGED hookVars

NextVersions ==
    \/ \E name \in VersionNames : saveVersion(name)
    \/ \E s \in saving : insert(s)
    \/ \E s \in saving : saveVersionResumes(s)

SpecVersions == InitVersions /\ [][NextVersions]_vars

----------------------------------------------------------------------------
TypeOK ==
    /\ history \in Seq(Val) /\ Len(history) >= 1
    /\ currentIndex \in Int
    /\ liveState \in Val
    /\ debounceTimeout \in 0..MaxTimerId
    /\ nextTimerId \in 1..(MaxTimerId + 1)
    /\ mounted \in BOOLEAN

----------------------------------------------------------------------------
\* The state the last callback ran in, and what the callback was.
Pre == lastOp.pre

EffectiveUndo == lastOp.op = "undo" /\ Pre.currentIndex > 0

EffectiveRedo == lastOp.op = "redo" /\ Pre.currentIndex < Len(Pre.history) - 1

BoundaryUndo == lastOp.op = "undo" /\ Pre.currentIndex = 0

BoundaryRedo == lastOp.op = "redo" /\ Pre.currentIndex = Len(Pre.history) - 1

Committed == lastOp.op = "commit"

\* The value the comparison in the last commit read from the history.
ComparedWith == At(Pre.history, Pre.currentIndex)

ComparisonThrew == StringifyThrows(lastOp.arg) \/ StringifyThrows(ComparedWith)

\* The entries [0..cursor] of the history before the callback, followed by v.
Truncated(v) == Append(Slice(Pre.history, Pre.currentIndex + 1), v)

----------------------------------------------------------------------------
\* C1: in every reachable state the history stack is non-empty and the cursor
\* is a valid index into it: 0 <= cursor < length(HistoryStack).
C1_CursorInRange ==
    /\ Len(history) >= 1
    /\ 0 <= currentIndex
    /\ currentIndex < Len(history)

\* C1's case: the owner is disposed with three entries and the cursor mid-stack
\* (after sets, commits and an undo).
C1_Witness ==
    /\ ~mounted
    /\ Len(history) = 3
    /\ currentIndex = 1

C4_AtMostOnePending == Cardinality(timers) <= 1

\* C4's case: setState called while a commit was pending.
C4_Witness ==
    /\ lastOp.op = "set"
    /\ Pre.timers # {}
    /\ Cardinality(timers) = 1

\* C5 as stated: after any undo() or redo() made while a commit is pending the
\* manager is Idle, whatever the cursor position.
C5_Original ==
    (lastOp.op \in {"undo", "redo"} /\ Pre.timers # {}) => timers = {}

\* C5 amended: after an undo() made with cursor > 0, or a redo() made with
\* cursor < length-1, while a commit is pending, the manager is Idle; and a
\* set() made while a commit is pending cancels that commit before arming its own.
C5_NavigationCancels ==
    /\ ((EffectiveUndo \/ EffectiveRedo) /\ Pre.timers # {}) => timers = {}
    /\ lastOp.op = "set" => Pre.timers \cap timers = {}

\* C5's case: a redo that moved the cursor while an edit was pending.
C5_Witness ==
    /\ EffectiveRedo
    /\ Pre.timers # {}
    /\ Pre.liveState # ComparedWith

\* C6: undo() with cursor > 0 leaves no commit pending, moves the cursor down
\* by exactly one and shows HistoryStack[cursor]; and no timer that an undo
\* cleared ever commits.
C6_Undo ==
    /\ EffectiveUndo =>
        /\ timers = {}
        /\ currentIndex = Pre.currentIndex - 1
        /\ liveState = At(history, currentIndex)
    /\ Committed => lastOp.timer \notin discarded
    /\ \A t \in timers : t.id \notin discarded

\* C6's case: an undo that discarded a pending edit.
C6_Witness ==
    /\ EffectiveUndo
    /\ Pre.timers # {}
    /\ \E t \in Pre.timers : t.id \in discarded /\ t.newState = Pre.liveState
    /\ liveState # Pre.liveState

\* C7: redo() with cursor < length-1 leaves no commit pending, moves the cursor
\* up by exactly one and shows HistoryStack[cursor].
C7_Redo ==
    EffectiveRedo =>
        /\ timers = {}
        /\ currentIndex = Pre.currentIndex + 1
        /\ liveState = At(history, currentIndex)

\* C7's case: a redo from the middle of a three-entry history to its end.
C7_Witness ==
    /\ EffectiveRedo
    /\ Len(history) = 3
    /\ currentIndex = 2

\* C8: undo() at cursor 0 and redo() at the last index change neither the
\* cursor, nor the history stack, nor LiveValue.
C8_BoundaryNoOps ==
    (BoundaryUndo \/ BoundaryRedo) =>
        /\ currentIndex = Pre.currentIndex
        /\ history = Pre.history
        /\ liveState = Pre.liveState

\* C8's case: undo() at cursor 0 with redo history and an uncommitted edit.
C8_Witness ==
    /\ BoundaryUndo
    /\ Len(history) >= 2
    /\ liveState # At(history, currentIndex)

\* C9 as stated: after any undo() or redo() call, LiveValue = HistoryStack[cursor].
C9_Original ==
    lastOp.op \in {"undo", "redo"} => liveState = At(history, currentIndex)

\* C9 amended: after an undo() made with cursor > 0 or a redo() made with
\* cursor < length-1, LiveValue = HistoryStack[cursor].
C9_LiveAfterNavigation ==
    (EffectiveUndo \/ EffectiveRedo) => liveState = At(history, currentIndex)

\* C9's case: an undo that replaced an uncommitted edit by the earlier entry.
C9_Witness ==
    /\ EffectiveUndo
    /\ Pre.liveState # ComparedWith
    /\ liveState = At(history, Pre.currentIndex - 1)

C11_NoAdjacentDuplicates ==
    \A i \in 1..(Len(history) - 1) : history[i] # history[i + 1]

\* C11's case: three entries, the first and the last equal, the cursor at the end.
C11_Witness ==
    /\ Len(history) = 3
    /\ history[1] = history[3]
    /\ currentIndex = 2
    /\ Committed

\* C12: after set(v) read() returns v while the timer of that set is still
\* armed, and after set(f) it returns f applied to the LiveValue current at the
\* call, which after an earlier pending set is that set's result.
C12_ImmediateVisibility ==
    lastOp.op = "set" =>
        /\ liveState = ApplyAction(lastOp.action, Pre.liveState)
        /\ ~lastOp.action.fn => liveState = lastOp.action.value
        /\ \E t \in timers : t.id = lastOp.timer /\ t.newState = liveState
        /\ Len(Pre.burst) >= 1 => Pre.liveState = Pre.burst[Len(Pre.burst)]

\* C12's case: set(f); set(g) on an edited value: read() returns g(f(live)),
\* which is not g of the committed entry.
C12_Witness ==
    /\ lastOp.op = "set"
    /\ lastOp.action.fn
    /\ Len(burst) = 3
    /\ burst[2] = Increment(burst[1])
    /\ liveState = Increment(Increment(burst[1]))
    /\ liveState # Increment(At(history, currentIndex))

\* C13: after construct(x) the history stack is [x], the cursor is 0, read()
\* returns x, canUndo and canRedo are false and no commit is pending.
C13_SeedState ==
    lastOp.op = "construct" =>
        /\ history = <<lastOp.arg>>
        /\ currentIndex = 0
        /\ liveState = lastOp.arg
        /\ ~canUndo
        /\ ~canRedo
        /\ timers = {}
        /\ debounceTimeout = NoTimeout

\* C13's case: the hook just constructed on a plain value.
C13_Witness ==
    /\ lastOp.op = "construct"
    /\ liveState \in PlainVal
    /\ mounted

\* A run of k undo() calls followed by k redo() calls, all of them taking
\* effect, that started with no commit pending and the cursor on the last index.
RoundTripDone ==
    /\ lastOp.op = "redo"
    /\ trip.idle
    /\ trip.currentIndex = Len(trip.history) - 1
    /\ trip.undos >= 1
    /\ trip.undos <= trip.currentIndex
    /\ trip.redos = trip.undos

\* C14: with no commit pending and the cursor on the last of the committed
\* entries, k undo() calls followed by k redo() calls (k = N-1 for N commits)
\* return the cursor to the last index and read() to the value of the last
\* commit, and leave the history stack unchanged.
C14_RoundTrip ==
    RoundTripDone =>
        /\ currentIndex = trip.currentIndex
        /\ currentIndex = Len(history) - 1
        /\ liveState = At(trip.history, trip.currentIndex)
        /\ history = trip.history

\* C14's case: three commits behind the seed, two undos, two redos.
C14_Witness ==
    /\ RoundTripDone
    /\ Len(history) = 4
    /\ trip.undos = 2
    /\ currentIndex = 3

\* C15: when the comparison inside a commit throws, the commit is dropped with
\* the history stack and the cursor unchanged, the error does not leave the
\* timer callback, and the manager is Idle afterwards.
C15_ComparisonFailure ==
    (Committed /\ ComparisonThrew) =>
        /\ history = Pre.history
        /\ currentIndex = Pre.currentIndex
        /\ ~lastOp.uncaught
        /\ timers = {}

\* C15's case: an unserializable value was set behind two plain entries and
\* its commit fired.
C15_Witness ==
    /\ Committed
    /\ StringifyThrows(lastOp.arg)
    /\ ~StringifyThrows(ComparedWith)
    /\ Len(history) >= 2
    /\ liveState = lastOp.arg

\* C16: a commit never changes LiveValue, whether it appends, is suppressed as
\* a duplicate or is dropped on a comparison failure.
C16_CommitKeepsLiveValue ==
    Committed => liveState = Pre.liveState

\* C16's case: a failed commit over an entry the live value differs from.
C16_Witness ==
    /\ Committed
    /\ ComparisonThrew
    /\ liveState # At(history, currentIndex)
    /\ canRedo

\* C17: once the owner is disposed no timer is armed and no commit fires: the
\* cleanup is the last callback that ran, and the history stack and the cursor
\* are what they were when it ran.
C17_DisposeCancels ==
    ~mounted =>
        /\ timers = {}
        /\ lastOp.op = "dispose"
        /\ history = Pre.history
        /\ currentIndex = Pre.currentIndex

\* C17's case: the owner was disposed while an edit was pending.
C17_Witness ==
    /\ ~mounted
    /\ Pre.timers # {}
    /\ \E t \in Pre.timers : t.newState # At(history, currentIndex)

\* The last callback changed the state of the hook.
StateChanged ==
    <<history, currentIndex, liveState, timers, debounceTimeout>>
        # <<Pre.history, Pre.currentIndex, Pre.liveState, Pre.timers,
            Pre.debounceTimeout>>

\* C18: canUndo is cursor > 0 and canRedo is cursor < length - 1 in every
\* state, and undo() (redo()) changes the state exactly when canUndo (canRedo)
\* was true when it was called.
C18_CanUndoCanRedo ==
    /\ canUndo <=> currentIndex > 0
    /\ canRedo <=> currentIndex < Len(history) - 1
    /\ lastOp.op = "undo" => (Pre.canUndo <=> StateChanged)
    /\ lastOp.op = "redo" => (Pre.canRedo <=> StateChanged)

\* C18's case: an undo, allowed by canUndo, to the first entry, where canUndo
\* is false and canRedo true.
C18_Witness ==
    /\ lastOp.op = "undo"
    /\ Pre.canUndo
    /\ ~canUndo
    /\ canRedo

\* C19: set() leaves the history stack and the cursor as they are and writes
\* the value it computed to LiveValue; the history stack changes only when a
\* commit fires, the cursor only then or on an undo or redo that takes effect.
C19_SetLeavesHistory ==
    /\ lastOp.op = "set" =>
        /\ history = Pre.history
        /\ currentIndex = Pre.currentIndex
        /\ liveState = lastOp.arg
    /\ history # Pre.history => Committed
    /\ currentIndex # Pre.currentIndex =>
        (Committed \/ EffectiveUndo \/ EffectiveRedo)

\* C19's case: a set in the middle of a three-entry history that changes the
\* live value and keeps the redo entries.
C19_Witness ==
    /\ lastOp.op = "set"
    /\ Len(history) = 3
    /\ currentIndex = 1
    /\ liveState # Pre.liveState
    /\ liveState # At(history, currentIndex)

C21_SetArmsOneTimer ==
    /\ lastOp.op = "set" =>
        /\ Cardinality(timers) = 1
        /\ \A t \in timers :
            /\ t.id = lastOp.timer
            /\ t.newState = ApplyAction(lastOp.action, Pre.liveState)
        /\ debounceTimeout = lastOp.timer
        /\ Pre.timers \cap timers = {}
        /\ \A t \in Pre.timers : t.id # lastOp.timer
    /\ Committed => lastOp.timer = Pre.debounceTimeout

\* C21's case: a set made while the commit of another value was pending.
C21_Witness ==
    /\ lastOp.op = "set"
    /\ Pre.timers # {}
    /\ \A t \in Pre.timers : t.newState # lastOp.arg /\ t \notin timers
    /\ \E t \in timers : t.newState = lastOp.arg

C23_PrefixPreserved ==
    Committed =>
        /\ Len(history) >= Pre.currentIndex + 1
        /\ Slice(history, Pre.currentIndex + 1) = Slice(Pre.history, Pre.currentIndex + 1)
        /\ history \in {Pre.history, Truncated(lastOp.arg)}

C25_CommitsLiveValue ==
    /\ \A t \in timers : t.newState = liveState
    /\ Committed =>
        /\ lastOp.arg = Pre.liveState
        /\ Len(Pre.burst) >= 1
        /\ lastOp.arg = Pre.burst[Len(Pre.burst)]

\* C25's case: after an undo two different values were set, and the timer
\* that fired committed the second, the live one.
C25_Witness ==
    /\ Committed
    /\ Pre.canRedo
    /\ Len(Pre.burst) = 2
    /\ Pre.burst[1] # Pre.burst[2]
    /\ lastOp.arg = Pre.liveState
    /\ history = Truncated(Pre.liveState)

\* The last callback was an undo() at cursor 0 or a redo() at the last index,
\* made while a commit was pending.
BoundaryNavPending == (BoundaryUndo \/ BoundaryRedo) /\ Pre.timers # {}

Entries(h) == {h[k] : k \in 1..Len(h)}

\* An undo() and then a redo(), the last callback, were made after one
\* set(v) from Idle at a cursor > 0 that was still pending; v is trip.burst[1].
SetUndoRedoDone ==
    /\ lastOp.op = "redo"
    /\ Len(trip.burst) = 1
    /\ trip.currentIndex > 0
    /\ trip.undos = 1
    /\ trip.redos = 1

\* C27 as stated: from Idle with cursor c > 0, after set(v) (still pending),
\* undo(), redo(), the cursor is c, LiveValue is HistoryStack[c] and not v, the
\* history stack is unchanged and v occurs nowhere in it.
C27_Original ==
    SetUndoRedoDone =>
        /\ currentIndex = trip.currentIndex
        /\ liveState = At(history, currentIndex)
        /\ liveState # trip.burst[1]
        /\ history = trip.history
        /\ trip.burst[1] \notin Entries(history)

\* C27 amended: from Idle with cursor c > 0, after set(v) (still pending),
\* undo(), redo(), the cursor is c, LiveValue is HistoryStack[c], no commit is
\* pending and the history stack is unchanged: v occurs in it only where it
\* occurred before, and when v was no entry LiveValue is not v.
C27_DiscardedEdit ==
    SetUndoRedoDone =>
        /\ currentIndex = trip.currentIndex
        /\ liveState = At(history, currentIndex)
        /\ history = trip.history
        /\ timers = {}
        /\ trip.burst[1] \notin Entries(trip.history) =>
            /\ trip.burst[1] \notin Entries(history)
            /\ liveState # trip.burst[1]

\* C27's case: a value that is no entry was set at the end of a three-entry
\* history, and undo() and redo() followed.
C27_Witness ==
    /\ SetUndoRedoDone
    /\ Len(history) = 3
    /\ currentIndex = 2
    /\ trip.burst[1] \notin Entries(history)
    /\ liveState # trip.burst[1]

\* C28: undo() and redo() leave the contents and the length of the history
\* stack as they are; they change at most the cursor, LiveValue and the
\* pending commit, which they can only cancel.
C28_NavigationFrame ==
    lastOp.op \in {"undo", "redo"} =>
        /\ history = Pre.history
        /\ Len(history) = Len(Pre.history)
        /\ timers \subseteq Pre.timers
        /\ debounceTimeout = Pre.debounceTimeout
        /\ mounted

\* C28's case: an undo in a three-entry history that moved the cursor, changed
\* LiveValue and cancelled a pending commit.
C28_Witness ==
    /\ EffectiveUndo
    /\ Len(history) = 3
    /\ currentIndex # Pre.currentIndex
    /\ liveState # Pre.liveState
    /\ timers # Pre.timers

\* The ids of the rows of the remote table, and of the local versions.
InsertedIds == {resume_versions[k].id : k \in 1..Len(resume_versions)}

LocalIds == {savedVersions[k].id : k \in 1..Len(savedVersions)}

\* C29: for a signed-in free-tier user who starts with no saved version, every
\* interleaving of saveVersion calls inserts at most one version into the
\* remote store, and once no call is waiting the local savedVersions list
\* holds every version that was inserted.
C29_FreeTierLimit ==
    user = "free" =>
        /\ Len(resume_versions) <= 1
        /\ saving = {} => InsertedIds \subseteq LocalIds

\* Every armed timer holds the pushToHistory of the current render.
TimersHoldCurrentRender == \A t \in timers : t.render = CurrentRender

====
